---------------------------- MODULE Spec2Model ----------------------------
(***************************************************************************)
(* Model of the beat-grid backend (src/backend): the beat adjustment and   *)
(* click-track functions of BeatDetector, the update-beats / analyze       *)
(* handlers of the Flask app, the boundary construction and labelling of   *)
(* StructureAnalyzer.analyze_structure, and the energy state machine of    *)
(* StructureAnalyzer.detect_energy_sections.                               *)
(*                                                                         *)
(* Times are integers counting ticks of 1/3000 s (TicksPerSecond), so that *)
(* every time the modelled inputs produce (halves, thirds and fifths of    *)
(* the half-second input grid) is an exact integer; the Python code does   *)
(* the same arithmetic on floats.                                          *)
(***************************************************************************)
EXTENDS Integers, Sequences, FiniteSets, TLC

VARIABLES
    adjust_args,        \* arguments of the adjust_beats call under study
    adjust_ret,         \* its outcome: pending, returned (a list) or raised
    click_args,         \* arguments of the generate_click_track_times call
    click_ret,          \* its outcome: pending or returned (the click events)
    analysis_results,   \* app.py's store: file id -> file_info
    issued,             \* file ids save_uploaded_file has handed out so far
    in_flight,          \* analyze_file requests between status='analyzing' and their result
    response,           \* the last request a handler answered, and its answer
    structure_args,     \* analyze_structure: the audio length and num_sections
    bound_frames,       \* analyze_structure: the boundary frames, once found
    structure_ret,      \* analyze_structure: position in the method, and its result
    rms_norm,           \* detect_energy_sections: the normalized envelope
    energy_pc,          \* detect_energy_sections: "scan", "final" or "done"
    frame,              \* detect_energy_sections: the loop index i (0-based)
    current_state,      \* detect_energy_sections: 'normal', 'high' or 'low'
    section_start,      \* detect_energy_sections: frame of the last transition
    energy_sections     \* detect_energy_sections: the sections emitted so far

vars == <<adjust_args, adjust_ret, click_args, click_ret,
          analysis_results, issued, in_flight, response,
          structure_args, bound_frames, structure_ret,
          rms_norm, energy_pc, frame, current_state, section_start, energy_sections>>

energyVars == <<rms_norm, energy_pc, frame, current_state, section_start, energy_sections>>

\* The energy detector is not running.
EnergyIdle ==
    /\ rms_norm = <<>> /\ energy_pc = "idle" /\ frame = 0
    /\ current_state = "" /\ section_start = 0 /\ energy_sections = <<>>

adjustVars == <<adjust_args, adjust_ret>>
clickVars == <<click_args, click_ret>>
appVars == <<analysis_results, issued, in_flight, response>>
structureVars == <<structure_args, bound_frames, structure_ret>>

\* Value of the variables of a component that a specification does not run.
Idle == [state |-> "idle"]

-----------------------------------------------------------------------------
(* Generic helpers standing for Python list operations.                    *)

\* All sequences over S of length 0..n.
SeqsUpTo(S, n) == UNION {[1..k -> S] : k \in 0..n}

\* list[::step] for step >= 1: the elements at 0-based indices 0, step, 2*step...
Stride(list, step) ==
    [k \in 1..((Len(list) + step - 1) \div step) |-> list[(k - 1) * step + 1]]

\* [x for x in list if x >= 0]
NonNegative(list) == SelectSeq(list, LAMBDA b : b >= 0)

RECURSIVE Concat(_)
\* Concatenation of a sequence of sequences.
Concat(ss) == IF ss = <<>> THEN <<>> ELSE Head(ss) \o Concat(Tail(ss))

-----------------------------------------------------------------------------
(* Units and input bounds.                                                 *)

TicksPerSecond == 3 * 1000
HalfSecond == TicksPerSecond \div 2

\* longest beat list handed to adjust_beats
MaxBeats == 3
\* beat times range over -0.5 s .. MaxBeatHalves * 0.5 s
MaxBeatHalves == 6
\* offsets range over -MaxOffsetHalves * 0.5 s .. +0.5 s
MaxOffsetHalves == 3

BeatTimes == {k * HalfSecond : k \in -1..MaxBeatHalves}
Offsets == {k * HalfSecond : k \in -MaxOffsetHalves..1}

\* bpm_multiplier as a fraction num/den in lowest terms:
\* 1/3, 2/5, 1/2, 2/3, 1, 3/2, 2, 5/2, 3
Multipliers ==
    { [num |-> 1, den |-> 3], [num |-> 2, den |-> 5], [num |-> 1, den |-> 2],
      [num |-> 2, den |-> 3], [num |-> 1, den |-> 1], [num |-> 3, den |-> 2],
      [num |-> 2, den |-> 1], [num |-> 5, den |-> 2], [num |-> 3, den |-> 1] }

One == [num |-> 1, den |-> 1]

-----------------------------------------------------------------------------
(* BeatDetector.adjust_beats                                               *)

\* int(x) for a positive fraction x: truncation.
IntOf(m) == m.num \div m.den

\* beats[i] + (beats[i + 1] - beats[i]) * (j / bpm_multiplier)
Interp(beats, i, j, m) ==
    beats[i] + ((beats[i + 1] - beats[i]) * j * m.den) \div m.num

\* The body of the densify loop for one i: beats[i] and its interpolated points.
InterpolatedRun(beats, i, m) ==
    <<beats[i]>> \o [j \in 1..(IntOf(m) - 1) |-> Interp(beats, i, j, m)]

\* The densify branch (bpm_multiplier > 1.0); beats[-1] of an empty array
\* raises IndexError.
Interpolate(beats, m) ==
    IF Len(beats) = 0
    THEN [raised |-> "IndexError", value |-> <<>>]
    ELSE [raised |-> "",
          value  |-> Concat([i \in 1..(Len(beats) - 1) |-> InterpolatedRun(beats, i, m)])
                     \o <<beats[Len(beats)]>>]

\* Mutant: the stride rounded up instead of truncated.
Decimate_CeilStep(beats, m) ==
    Stride(beats, (m.den + m.num - 1) \div m.num)

\* The sparsify branch: step = int(1.0 / bpm_multiplier); beats[::step]
Decimate(beats, m) ==
    Stride(beats, (m.den) \div (m.num))

\* Mutant: the offset subtracted.
ApplyOffset_Subtract(beats, offset) == [i \in 1..Len(beats) |-> beats[i] - offset]

\* beats + offset on the numpy array
ApplyOffset(beats, offset) == [i \in 1..Len(beats) |-> beats[i] + offset]

\* Mutant: b > 0 in place of b >= 0.
PostFilter_Strict(beats) == SelectSeq(beats, LAMBDA b : b > 0)

\* The final comprehension [float(b) for b in beats if b >= 0]
PostFilter(beats) == NonNegative(beats)

\* Mutant: the interpolation branch taken for bpm_multiplier >= 1.0, the
\* bpm_multiplier != 1.0 test missing.
adjust_beats_NoIdentityTest(beats, offset, bpm_multiplier) ==
    LET shifted == ApplyOffset(beats, offset)
        scaled  == IF bpm_multiplier.num >= bpm_multiplier.den
                   THEN Interpolate(shifted, bpm_multiplier)
                   ELSE [raised |-> "", value |-> Decimate(shifted, bpm_multiplier)]
    IN  IF scaled.raised # ""
        THEN [state |-> "raised", value |-> <<>>]
        ELSE [state |-> "returned", value |-> PostFilter(scaled.value)]

adjust_beats(beats, offset, bpm_multiplier) ==
    LET shifted == ApplyOffset(beats, offset)
        scaled  == IF bpm_multiplier.num # bpm_multiplier.den
                   THEN IF bpm_multiplier.num > bpm_multiplier.den
                        THEN Interpolate(shifted, bpm_multiplier)
                        ELSE [raised |-> "", value |-> Decimate(shifted, bpm_multiplier)]
                   ELSE [raised |-> "", value |-> shifted]
    IN  IF scaled.raised # ""
        THEN [state |-> "raised", value |-> <<>>]
        ELSE [state |-> "returned", value |-> PostFilter(scaled.value)]

AdjustInputs ==
    [beats : SeqsUpTo(BeatTimes, MaxBeats), offset : Offsets, bpm_multiplier : Multipliers]

AdjustPending == [state |-> "pending", value |-> <<>>]

InitAdjust ==
    /\ adjust_args \in AdjustInputs
    /\ adjust_ret = AdjustPending
    /\ click_args = Idle /\ click_ret = Idle
    /\ analysis_results = Idle /\ issued = Idle /\ in_flight = Idle /\ response = Idle
    /\ structure_args = Idle /\ bound_frames = Idle /\ structure_ret = Idle
    /\ EnergyIdle

CallAdjustBeats ==
    /\ adjust_ret.state = "pending"
    /\ adjust_ret' = adjust_beats(adjust_args.beats, adjust_args.offset,
                                  adjust_args.bpm_multiplier)
    /\ UNCHANGED <<adjust_args, clickVars, appVars, structureVars, energyVars>>

NextAdjust == CallAdjustBeats

SpecAdjust == InitAdjust /\ [][NextAdjust]_vars

-----------------------------------------------------------------------------
(* Properties of adjust_beats (checked under SpecAdjust).                  *)

Returned == adjust_ret.state = "returned"
Multiplier == adjust_args.bpm_multiplier
AllNonNegative(list) == \A i \in 1..Len(list) : list[i] >= 0

\* result holds exactly the entries src[i], i \in keep, in index order.
KeepsInOrder(result, src, keep) ==
    /\ Len(result) = Cardinality(keep)
    /\ \A i \in keep : result[Cardinality({k \in keep : k <= i})] = src[i]

\* C1 as stated (already for beat lists of non-negative times): with multiplier
\* 1.0, result[i] == beats[i] + o at every index i whose shifted value is >= 0,
\* and no negative shifted value is in the result.
C1_OffsetLinearityByIndex ==
    (/\ adjust_ret.state # "pending" /\ Multiplier = One
     /\ AllNonNegative(adjust_args.beats)) =>
        /\ Returned
        /\ \A i \in 1..Len(adjust_args.beats) :
              adjust_args.beats[i] + adjust_args.offset >= 0 =>
                  /\ i <= Len(adjust_ret.value)
                  /\ adjust_ret.value[i] = adjust_args.beats[i] + adjust_args.offset
        /\ \A k \in 1..Len(adjust_ret.value) : adjust_ret.value[k] >= 0

\* C1 (amended): with multiplier 1.0, adjust(beats, offset=o) is the list of the
\* values beats[i] + o that are >= 0, in input order: its k-th element is the
\* k-th non-negative shifted value, so result[i] == beats[i] + o holds at index i
\* only when no earlier entry was dropped; negative shifted values are absent.
C1_OffsetLinearity ==
    (adjust_ret.state # "pending" /\ Multiplier = One) =>
        /\ Returned
        /\ KeepsInOrder(adjust_ret.value,
                        [i \in 1..Len(adjust_args.beats) |->
                            adjust_args.beats[i] + adjust_args.offset],
                        {i \in 1..Len(adjust_args.beats) :
                            adjust_args.beats[i] + adjust_args.offset >= 0})
        /\ \A k \in 1..Len(adjust_ret.value) : adjust_ret.value[k] >= 0

\* A call that shifted some beats below zero and one exactly to zero, and kept
\* a later one.
C1_Witness ==
    /\ Returned /\ Multiplier = One
    /\ Len(adjust_args.beats) = 3
    /\ adjust_args.beats[1] + adjust_args.offset < 0
    /\ adjust_args.beats[2] + adjust_args.offset = 0
    /\ adjust_args.beats[3] + adjust_args.offset > 0
    /\ Len(adjust_ret.value) = 2

\* C2 as stated: adjust(beats, offset=0, multiplier=1) == beats for every list.
C2_OffsetIdentityAnyList ==
    (adjust_ret.state # "pending" /\ Multiplier = One /\ adjust_args.offset = 0) =>
        (Returned /\ adjust_ret.value = adjust_args.beats)

\* C2 (amended): adjust(beats, offset=0, multiplier=1) == beats for every beat
\* list that holds no negative time (a negative time is dropped by the
\* post-filter even at offset 0).
C2_OffsetIdentity ==
    (/\ adjust_ret.state # "pending" /\ Multiplier = One /\ adjust_args.offset = 0
     /\ AllNonNegative(adjust_args.beats)) =>
        (Returned /\ adjust_ret.value = adjust_args.beats)

\* The identity call on a full-length list, and on the empty list.
C2_Witness ==
    /\ Returned /\ Multiplier = One /\ adjust_args.offset = 0
    /\ AllNonNegative(adjust_args.beats)
    /\ Len(adjust_args.beats) = MaxBeats
    /\ adjust_args.beats[1] = 0

\* The arguments of the worked example: [1.0, 2.0, 3.0], offset -1.5, multiplier 1.0
ExampleBeats == <<TicksPerSecond, 2 * TicksPerSecond, 3 * TicksPerSecond>>
ExampleCall ==
    /\ adjust_args.beats = ExampleBeats
    /\ adjust_args.offset = -3 * HalfSecond
    /\ Multiplier = One

\* C3 as stated: the example returns [0.0, 0.5, 1.5], nothing dropped.
C3_ExampleAsStated ==
    (ExampleCall /\ adjust_ret.state # "pending") =>
        (Returned /\ adjust_ret.value = <<0, HalfSecond, 3 * HalfSecond>>)

\* C3 (amended): adjust([1.0, 2.0, 3.0], offset=-1.5, multiplier=1.0) returns
\* [0.5, 1.5]: the first beat shifts to -0.5 and is dropped.
C3_Example ==
    (ExampleCall /\ adjust_ret.state # "pending") =>
        (Returned /\ adjust_ret.value = <<HalfSecond, 3 * HalfSecond>>)

C3_Witness == ExampleCall /\ Returned /\ Len(adjust_ret.value) = 2

\* floor(1 / multiplier)
StrideOf(m) == m.den \div m.num

\* C4 as stated: for a multiplier in (0, 1) (offset 0) the result is the input's
\* elements at indices 0, s, 2s, ... with s = floor(1/multiplier), for every
\* beat list; at 0.5 its length is ceil(len(beats)/2).
C4_DecimationAnyList ==
    (/\ adjust_ret.state # "pending" /\ adjust_args.offset = 0
     /\ Multiplier.num < Multiplier.den) =>
        /\ Returned
        /\ KeepsInOrder(adjust_ret.value, adjust_args.beats,
                        {i \in 1..Len(adjust_args.beats) : (i - 1) % StrideOf(Multiplier) = 0})
        /\ (Multiplier = [num |-> 1, den |-> 2] =>
                Len(adjust_ret.value) = (Len(adjust_args.beats) + 1) \div 2)

\* C4 (amended): for a multiplier in (0, 1) (offset 0) the result is the input's
\* elements at indices 0, s, 2s, ... with s = floor(1/multiplier), from which
\* the negative times are then dropped; for a beat list without negative times
\* it is exactly that stride decimation, of length ceil(len(beats)/2) at 0.5.
C4_Decimation ==
    (/\ adjust_ret.state # "pending" /\ adjust_args.offset = 0
     /\ Multiplier.num < Multiplier.den) =>
        /\ Returned
        /\ KeepsInOrder(adjust_ret.value, adjust_args.beats,
                        {i \in 1..Len(adjust_args.beats) :
                            /\ (i - 1) % StrideOf(Multiplier) = 0
                            /\ adjust_args.beats[i] >= 0})
        /\ (Multiplier = [num |-> 1, den |-> 2] /\ AllNonNegative(adjust_args.beats) =>
                Len(adjust_ret.value) = (Len(adjust_args.beats) + 1) \div 2)

\* Halving three non-negative beats keeps the first and the third.
C4_Witness ==
    /\ Returned /\ adjust_args.offset = 0
    /\ Multiplier = [num |-> 1, den |-> 2]
    /\ Len(adjust_args.beats) = 3
    /\ AllNonNegative(adjust_args.beats)
    /\ adjust_args.beats[1] # adjust_args.beats[2]
    /\ adjust_ret.value = <<adjust_args.beats[1], adjust_args.beats[3]>>

\* floor(multiplier)
FloorOf(m) == m.num \div m.den

\* C5: for a multiplier > 1.0 (offset 0) and every list of non-negative beats,
\* the empty list included, adjust returns a list: empty for n = 0, and for
\* n >= 1 of (n - 1) * floor(multiplier) + 1 elements, holding each original
\* beat i at position (i - 1) * floor(multiplier) + 1 followed by the points
\* beats[i] + (beats[i+1] - beats[i]) * j / multiplier, j = 1..floor(multiplier)-1,
\* the last original beat being the last element.
C5_Densify ==
    (/\ adjust_ret.state # "pending" /\ adjust_args.offset = 0
     /\ Multiplier.num > Multiplier.den
     /\ AllNonNegative(adjust_args.beats)) =>
        LET n == Len(adjust_args.beats)
            f == FloorOf(Multiplier)
            b == adjust_args.beats
            r == adjust_ret.value
        IN  /\ Returned
            /\ n = 0 => r = <<>>
            /\ n >= 1 =>
                /\ Len(r) = (n - 1) * f + 1
                /\ r[Len(r)] = b[n]
                /\ \A i \in 1..n : r[(i - 1) * f + 1] = b[i]
                /\ \A i \in 1..(n - 1) : \A j \in 1..(f - 1) :
                      r[(i - 1) * f + 1 + j] * Multiplier.num
                          = b[i] * Multiplier.num + (b[i + 1] - b[i]) * j * Multiplier.den

\* C5 restricted to the lists the code handles: at least one beat.
C5_DensifyNonEmpty ==
    Len(adjust_args.beats) >= 1 => C5_Densify


-----------------------------------------------------------------------------
(* BeatDetector.generate_click_track_times                                 *)

\* The accent tolerance 0.01 s, in ticks.
Tolerance == TicksPerSecond \div 100
HalfTolerance == Tolerance \div 2

\* longest downbeat list handed to generate_click_track_times
MaxDownbeats == 2
\* click inputs range over 0 .. MaxClickSteps * 0.005 s
MaxClickSteps == 3

ClickTimes == {k * HalfTolerance : k \in 0..MaxClickSteps}

Abs(x) == IF x < 0 THEN -x ELSE x

\* An optional argument: None, or a list.
None == [given |-> FALSE, list |-> <<>>]
Some(list) == [given |-> TRUE, list |-> list]

\* Mutant: <= in place of <.
WithinTolerance_Inclusive(beat, db) == Abs(beat - db) <= Tolerance

\* abs(beat - db) < 0.01
WithinTolerance(beat, db) == Abs(beat - db) < Tolerance

\* set(downbeats) if downbeats else set(): None and the empty list are falsy.
DownbeatSet(downbeats) ==
    IF downbeats.given /\ Len(downbeats.list) > 0
    THEN {downbeats.list[k] : k \in 1..Len(downbeats.list)}
    ELSE {}

\* Mutant: every downbeat that matches no beat gets an accented event of its own.
generate_click_track_times_OwnEvents(beats, downbeats) ==
    LET downbeat_set == DownbeatSet(downbeats)
        unmatched == SelectSeq(downbeats.list,
                         LAMBDA db : \A i \in 1..Len(beats) : ~WithinTolerance(beats[i], db))
    IN  [i \in 1..Len(beats) |->
            [time   |-> beats[i],
             accent |-> \E db \in downbeat_set : WithinTolerance(beats[i], db)]]
        \o [k \in 1..Len(unmatched) |-> [time |-> unmatched[k], accent |-> TRUE]]

generate_click_track_times(beats, downbeats) ==
    LET downbeat_set == DownbeatSet(downbeats)
    IN  [i \in 1..Len(beats) |->
            [time   |-> beats[i],
             accent |-> \E db \in downbeat_set : WithinTolerance(beats[i], db)]]

ClickInputs ==
    [beats : SeqsUpTo(ClickTimes, MaxBeats),
     downbeats : {None} \cup {Some(l) : l \in SeqsUpTo(ClickTimes, MaxDownbeats)}]

ClickPending == [state |-> "pending", clicks |-> <<>>]

InitClick ==
    /\ click_args \in ClickInputs
    /\ click_ret = ClickPending
    /\ adjust_args = Idle /\ adjust_ret = Idle
    /\ analysis_results = Idle /\ issued = Idle /\ in_flight = Idle /\ response = Idle
    /\ structure_args = Idle /\ bound_frames = Idle /\ structure_ret = Idle
    /\ EnergyIdle

CallGenerateClickTrackTimes ==
    /\ click_ret.state = "pending"
    /\ click_ret' = [state  |-> "returned",
                     clicks |-> generate_click_track_times(click_args.beats,
                                                           click_args.downbeats)]
    /\ UNCHANGED <<click_args, adjustVars, appVars, structureVars, energyVars>>

NextClick == CallGenerateClickTrackTimes

SpecClick == InitClick /\ [][NextClick]_vars

-----------------------------------------------------------------------------
(* Properties of generate_click_track_times (checked under SpecClick).     *)

ClicksReturned == click_ret.state = "returned"

\* C6: the click track has exactly one event per input beat, in input order,
\* event i carrying time beats[i], whatever the downbeats (None, empty, or
\* downbeats that match no beat, which get no event of their own).
C6_ClickTrackShape ==
    ClicksReturned =>
        /\ Len(click_ret.clicks) = Len(click_args.beats)
        /\ \A i \in 1..Len(click_args.beats) :
              click_ret.clicks[i].time = click_args.beats[i]

\* A call whose downbeat list holds a downbeat matching none of the beats.
C6_Witness ==
    /\ ClicksReturned
    /\ Len(click_args.beats) = MaxBeats
    /\ click_args.downbeats.given
    /\ \E k \in 1..Len(click_args.downbeats.list) :
          \A i \in 1..Len(click_args.beats) :
              Abs(click_args.beats[i] - click_args.downbeats.list[k]) >= Tolerance

\* C7: the event of beat b is accented iff some downbeat d of the downbeat
\* list has |b - d| < 0.01 (strictly): true when several are that close, false
\* when none is (also for a downbeat exactly 0.01 away, and for no downbeats).
C7_AccentPredicate ==
    ClicksReturned =>
        \A i \in 1..Len(click_ret.clicks) :
            click_ret.clicks[i].accent <=>
                /\ click_args.downbeats.given
                /\ \E k \in 1..Len(click_args.downbeats.list) :
                      /\ click_args.beats[i] - click_args.downbeats.list[k] < Tolerance
                      /\ click_args.downbeats.list[k] - click_args.beats[i] < Tolerance

\* One beat with two distinct downbeats within tolerance (accented) and another
\* whose only near downbeat is exactly 0.01 s away (not accented).
C7_Witness ==
    /\ ClicksReturned
    /\ Len(click_args.beats) >= 2 /\ Len(click_args.downbeats.list) = 2
    /\ click_args.downbeats.list[1] # click_args.downbeats.list[2]
    /\ \A k \in 1..2 : Abs(click_args.beats[1] - click_args.downbeats.list[k]) < Tolerance
    /\ click_ret.clicks[1].accent
    /\ \E k \in 1..2 : Abs(click_args.beats[2] - click_args.downbeats.list[k]) = Tolerance
    /\ ~click_ret.clicks[2].accent


-----------------------------------------------------------------------------
(* app.py: the in-memory store and the upload, analyze, update-beats and   *)
(* delete handlers.                                                        *)

\* longest beat array of a request; detected grids hold MaxRampLen - 3 beats
MaxRampLen == 8

FileIds == {"f1"}
Workers == {1, 2}

\* <<start, start + step, ..., start + (n - 1) * step>>
Ramp(n, start, step) == [i \in 1..n |-> start + (i - 1) * step]

\* Mutant: 0-based beat numbers, the + 1 missing.
FourFourNumbers_ZeroBased(n) == [i \in 1..n |-> (i - 1) % 4]

\* [(i % 4) + 1 for i in range(n)]
FourFourNumbers(n) == [i \in 1..n |-> ((i - 1) % 4) + 1]

\* The 4/4 assumption of the detectors: every 4th beat is a downbeat.
AssumeFourFour(beats, bpm) ==
    [beats |-> beats, downbeats |-> Stride(beats, 4),
     beat_numbers |-> FourFourNumbers(Len(beats)), bpm |-> bpm]

\* madmom's downbeat tracker: bar positions cycling 1..meter from some phase;
\* the downbeats are the beats at bar position 1.
TrackedDownbeats(beats, bpm, meter, phase) ==
    LET numbers == [i \in 1..Len(beats) |-> ((phase + i - 2) % meter) + 1]
        ones == {i \in 1..Len(beats) : numbers[i] = 1}
    IN  [beats |-> beats,
         downbeats |-> [k \in 1..Cardinality(ones) |->
                           beats[CHOOSE i \in ones : Cardinality({j \in ones : j <= i}) = k]],
         beat_numbers |-> numbers, bpm |-> bpm]

\* Beat times a detector may report: evenly spaced at 0.5 s (120 bpm).
DetectedBeats == {Ramp(MaxRampLen - 3, HalfSecond, HalfSecond)}

\* The possible results of beat_detector.detect_beats on the track.
DetectBeats ==
    {AssumeFourFour(b, 120) : b \in DetectedBeats}
    \cup {TrackedDownbeats(b, 120, meter, phase) :
            b \in DetectedBeats, meter \in {3, 4}, phase \in {1, 2}}

NoGrid == [beats |-> <<>>, downbeats |-> <<>>, beat_numbers |-> <<>>, bpm |-> 0]

\* file_info as upload_file stores it: no 'beats' and no 'structure' key yet.
UploadedInfo ==
    [status |-> "uploaded", has_beats |-> FALSE, beats |-> NoGrid,
     has_structure |-> FALSE, has_error |-> FALSE]

\* A JSON scalar of the request body: absent, a number, or a value float() rejects.
Absent == [given |-> FALSE, numeric |-> FALSE, num |-> 0]
Num(n) == [given |-> TRUE, numeric |-> TRUE, num |-> n]
Text == [given |-> TRUE, numeric |-> FALSE, num |-> 0]

\* Beat arrays of update requests: 1.0, 2.0, ... seconds.
RequestArrays ==
    {Ramp(n, TicksPerSecond, TicksPerSecond) : n \in {1, MaxRampLen - 3, MaxRampLen}}

\* Request bodies: each key absent or present; an offset of -1.0 s (repeated
\* requests shift the grid further, dropping the beats that go negative).
UpdateRequests ==
    [beats  : {None} \cup {Some(a) : a \in RequestArrays},
     offset : {Absent, Text, Num(-TicksPerSecond)},
     bpm    : {Absent, Text, Num(90)}]

NoRequest == [beats |-> None, offset |-> Absent, bpm |-> Absent]

Respond(handler, file_id, data, code) ==
    [handler |-> handler, file_id |-> file_id, data |-> data, code |-> code]

InitApp ==
    /\ analysis_results = <<>>
    /\ issued = {}
    /\ in_flight = {}
    /\ response = Respond("none", "", NoRequest, 0)
    /\ adjust_args = Idle /\ adjust_ret = Idle
    /\ click_args = Idle /\ click_ret = Idle
    /\ structure_args = Idle /\ bound_frames = Idle /\ structure_ret = Idle
    /\ EnergyIdle

\* POST /api/upload with an allowed file: a fresh id, status 'uploaded'.
upload_file ==
    \E file_id \in FileIds \ issued :
        /\ issued' = issued \cup {file_id}
        /\ analysis_results' = (file_id :> UploadedInfo) @@ analysis_results
        /\ response' = Respond("upload_file", file_id, NoRequest, 200)
        /\ UNCHANGED <<in_flight, adjustVars, clickVars, structureVars, energyVars>>

\* GET /api/analyze/<file_id>, up to file_info['status'] = 'analyzing'.
analyze_file_begin ==
    \E file_id \in FileIds, w \in Workers :
        /\ w \notin {r.worker : r \in in_flight}
        /\ IF file_id \notin DOMAIN analysis_results
           THEN /\ response' = Respond("analyze_file", file_id, NoRequest, 404)
                /\ UNCHANGED <<analysis_results, in_flight>>
           ELSE IF analysis_results[file_id].status = "analyzed"
           THEN /\ response' = Respond("analyze_file", file_id, NoRequest, 200)
                /\ UNCHANGED <<analysis_results, in_flight>>
           ELSE /\ analysis_results' =
                      [analysis_results EXCEPT ![file_id].status = "analyzing"]
                /\ in_flight' = in_flight \cup {[worker |-> w, file_id |-> file_id]}
                /\ UNCHANGED response
        /\ UNCHANGED <<issued, adjustVars, clickVars, structureVars, energyVars>>

\* The rest of analyze_file: detection and structure analysis succeed and the
\* results are stored in the file_info the request holds.
analyze_file_store ==
    \E r \in in_flight, beat_data \in DetectBeats :
        /\ in_flight' = in_flight \ {r}
        /\ analysis_results' =
              IF r.file_id \in DOMAIN analysis_results
              THEN [analysis_results EXCEPT ![r.file_id] =
                        [@ EXCEPT !.beats = beat_data, !.has_beats = TRUE,
                                  !.has_structure = TRUE, !.status = "analyzed"]]
              ELSE analysis_results
        /\ response' = Respond("analyze_file", r.file_id, NoRequest, 200)
        /\ UNCHANGED <<issued, adjustVars, clickVars, structureVars, energyVars>>

\* The rest of analyze_file when detection or structure analysis raises.
analyze_file_error ==
    \E r \in in_flight :
        /\ in_flight' = in_flight \ {r}
        /\ analysis_results' =
              IF r.file_id \in DOMAIN analysis_results
              THEN [analysis_results EXCEPT ![r.file_id] =
                        [@ EXCEPT !.status = "error", !.has_error = TRUE]]
              ELSE analysis_results
        /\ response' = Respond("analyze_file", r.file_id, NoRequest, 500)
        /\ UNCHANGED <<issued, adjustVars, clickVars, structureVars, energyVars>>

\* float(x) of a request value: the number, or ValueError / TypeError.
ToFloat(x) == [raised |-> ~x.numeric, value |-> x.num]

\* The 'beats' step of update_beats on the stored grid.
StoreBeats(grid, array) ==
    [grid EXCEPT !.beats = array,
                 !.downbeats = Stride(array, 4),
                 !.beat_numbers = FourFourNumbers(Len(array))]

\* The 'offset' step of update_beats on the stored grid.
StoreOffset(grid, offset) ==
    LET adjusted_beats == adjust_beats(grid.beats, offset, One).value
    IN  [grid EXCEPT !.beats = adjusted_beats,
                     !.downbeats = Stride(adjusted_beats, 4)]

\* The try block of update_beats: the file_info it leaves and whether it raised.
\* Each step writes to file_info as it goes; a later step that raises leaves
\* the earlier writes in place.
UpdateBeatsBody(file_info, data) ==
    LET s0 == [info |-> file_info, raised |-> FALSE]
        s1 == IF ~data.beats.given THEN s0
              ELSE IF ~s0.info.has_beats THEN [s0 EXCEPT !.raised = TRUE]
              ELSE [s0 EXCEPT !.info.beats = StoreBeats(@, data.beats.list)]
        s2 == IF s1.raised \/ ~data.offset.given THEN s1
              ELSE IF ToFloat(data.offset).raised \/ ~s1.info.has_beats
                   THEN [s1 EXCEPT !.raised = TRUE]
              ELSE [s1 EXCEPT !.info.beats = StoreOffset(@, ToFloat(data.offset).value)]
        s3 == IF s2.raised \/ ~data.bpm.given THEN s2
              ELSE IF ToFloat(data.bpm).raised \/ ~s2.info.has_beats
                   THEN [s2 EXCEPT !.raised = TRUE]
              ELSE [s2 EXCEPT !.info.beats.bpm = ToFloat(data.bpm).value]
    IN  IF ~s3.raised /\ ~s3.info.has_beats
        THEN [s3 EXCEPT !.raised = TRUE]
        ELSE s3

\* POST /api/update-beats/<file_id>
update_beats ==
    \E file_id \in FileIds, data \in UpdateRequests :
        /\ IF file_id \notin DOMAIN analysis_results
           THEN /\ response' = Respond("update_beats", file_id, data, 404)
                /\ UNCHANGED analysis_results
           ELSE IF ~(data.beats.given \/ data.offset.given \/ data.bpm.given)
           THEN /\ response' = Respond("update_beats", file_id, data, 400)
                /\ UNCHANGED analysis_results
           ELSE LET out == UpdateBeatsBody(analysis_results[file_id], data)
                IN  /\ analysis_results' = [analysis_results EXCEPT ![file_id] = out.info]
                    /\ response' = Respond("update_beats", file_id, data,
                                           IF out.raised THEN 500 ELSE 200)
        /\ UNCHANGED <<issued, in_flight, adjustVars, clickVars, structureVars, energyVars>>

\* DELETE /api/delete/<file_id>
delete_file ==
    \E file_id \in FileIds :
        /\ IF file_id \notin DOMAIN analysis_results
           THEN /\ response' = Respond("delete_file", file_id, NoRequest, 404)
                /\ UNCHANGED analysis_results
           ELSE /\ analysis_results' =
                      [f \in DOMAIN analysis_results \ {file_id} |-> analysis_results[f]]
                /\ response' = Respond("delete_file", file_id, NoRequest, 200)
        /\ UNCHANGED <<issued, in_flight, adjustVars, clickVars, structureVars, energyVars>>

\* The format query parameter of an export request.
ExportFormats == {"json", "csv", "xml"}

\* GET /api/export/<file_id>: reads the stored results, writes nothing.
export_data ==
    \E file_id \in FileIds, export_format \in ExportFormats :
        /\ response' =
              Respond("export_data", file_id, NoRequest,
                      IF file_id \notin DOMAIN analysis_results THEN 404
                      ELSE IF analysis_results[file_id].status # "analyzed" THEN 400
                      ELSE IF export_format \in {"json", "csv"} THEN 200
                      ELSE 400)
        /\ UNCHANGED <<analysis_results, issued, in_flight,
                       adjustVars, clickVars, structureVars, energyVars>>

\* GET /api/click-track/<file_id>: reads the stored grid, writes nothing.
get_click_track ==
    \E file_id \in FileIds :
        /\ response' =
              Respond("get_click_track", file_id, NoRequest,
                      IF file_id \notin DOMAIN analysis_results THEN 404
                      ELSE IF ~analysis_results[file_id].has_beats THEN 400
                      ELSE 200)
        /\ UNCHANGED <<analysis_results, issued, in_flight,
                       adjustVars, clickVars, structureVars, energyVars>>

NextApp ==
    \/ upload_file
    \/ analyze_file_begin
    \/ analyze_file_store
    \/ analyze_file_error
    \/ update_beats
    \/ export_data
    \/ get_click_track
    \/ delete_file

SpecApp == InitApp /\ [][NextApp]_vars


-----------------------------------------------------------------------------
(* Properties of the handlers (checked under SpecApp).                     *)

\* The last answered request was an update-beats request carrying a beat array
\* for a track that is in the store and has a BeatGrid.
ExplicitUpdateAnswered ==
    /\ response.handler = "update_beats"
    /\ response.data.beats.given
    /\ response.file_id \in DOMAIN analysis_results
    /\ analysis_results[response.file_id].has_beats

\* The stored grid is the explicit-update image of array.
IsExplicitGrid(grid, array) ==
    /\ grid.beats = array
    /\ KeepsInOrder(grid.downbeats, array, {i \in 1..Len(array) : (i - 1) % 4 = 0})
    /\ Len(grid.beat_numbers) = Len(array)
    /\ \A i \in 1..Len(array) :
          /\ grid.beat_numbers[i] \in 1..4
          /\ (grid.beat_numbers[i] - i) % 4 = 0

\* C8 as stated: whenever an update-beats request supplies a beat array for an
\* analyzed track, the stored beats become that array, the downbeats its
\* elements at indices 0, 4, 8, ..., the beat_numbers (i mod 4) + 1.
C8_ExplicitUpdateAnyRequest ==
    ExplicitUpdateAnswered =>
        IsExplicitGrid(analysis_results[response.file_id].beats, response.data.beats.list)

\* C8 (amended): when an update-beats request supplies a beat array and no
\* offset for an analyzed track, the stored beats become that array, the
\* downbeats its elements at indices 0, 4, 8, ..., and the beat_numbers
\* (i mod 4) + 1; beats [1..8] give downbeats [1.0, 5.0] and beat_numbers
\* [1,2,3,4,1,2,3,4].  (With an offset in the same request the stored beats and
\* downbeats are those of the shifted array.)
C8_ExplicitUpdate ==
    (ExplicitUpdateAnswered /\ ~response.data.offset.given) =>
        LET grid == analysis_results[response.file_id].beats
            array == response.data.beats.list
        IN  /\ IsExplicitGrid(grid, array)
            /\ array = Ramp(8, TicksPerSecond, TicksPerSecond) =>
                  /\ grid.downbeats = <<TicksPerSecond, 5 * TicksPerSecond>>
                  /\ grid.beat_numbers = <<1, 2, 3, 4, 1, 2, 3, 4>>

\* The example request, answered 200 on an analyzed track.
C8_Witness ==
    /\ ExplicitUpdateAnswered /\ ~response.data.offset.given
    /\ response.code = 200
    /\ analysis_results[response.file_id].status = "analyzed"
    /\ response.data.beats.list = Ramp(8, TicksPerSecond, TicksPerSecond)
    /\ analysis_results[response.file_id].beats.downbeats = <<TicksPerSecond, 5 * TicksPerSecond>>


-----------------------------------------------------------------------------
(* StructureAnalyzer.analyze_structure and _label_segments.                *)
(* Times of this component are kept exact as sample counts (seconds times  *)
(* the sample rate sr): frame f is at f * hop_length / sr seconds and the  *)
(* track lasts len(y) / sr seconds.                                        *)

\* librosa's default hop_length, used by the feature extractors and by
\* frames_to_time
HopLength == 512

\* the audio holds up to MaxHalfHops * HopLength / 2 samples
MaxHalfHops == 10
\* largest num_sections
MaxSections == 4

\* librosa.frames_to_time(frames, sr=sr), times sr
frames_to_time(f) == f * HopLength

\* features.shape[1]: the frame count of the centred feature extractors
NumFrames(y_len) == 1 + y_len \div HopLength

\* librosa.get_duration(y=y, sr=sr), times sr
Duration(y_len) == y_len

\* Strictly increasing sequence of the elements of a set of integers.
RECURSIVE SortedSeq(_)
SortedSeq(S) ==
    IF S = {} THEN <<>>
    ELSE LET m == CHOOSE x \in S : \A y \in S : x <= y
         IN  <<m>> \o SortedSeq(S \ {m})

\* What librosa.segment.agglomerative(features, num_sections) may return: the
\* left boundaries of at most num_sections segments, increasing frame indices.
AgglomerativeResults(n_frames, num_sections) ==
    {SortedSeq(S) : S \in {T \in SUBSET (0..(n_frames - 1)) : Cardinality(T) <= num_sections}}

\* Mutant: the closing boundary features.shape[1] left out.
ConcatenateBounds_NoEnd(bounds, n_frames) == <<0>> \o bounds

\* np.concatenate([[0], bounds, [features.shape[1]]])
ConcatenateBounds(bounds, n_frames) == <<0>> \o bounds \o <<n_frames>>

\* np.linspace(0, features.shape[1], num_sections + 1).astype(int)
UniformBounds(n_frames, num_sections) ==
    [i \in 1..(num_sections + 1) |-> ((i - 1) * n_frames) \div num_sections]

\* list(range(num_segments)): every segment its own cluster
SingletonClusters(num_segments) == [i \in 1..num_segments |-> i - 1]

\* What KMeans(n_clusters).fit_predict may return for num_segments segments.
\* The ids themselves are arbitrary and the labelling reads them only through
\* equality and order of first occurrence, so clusters are numbered here in
\* order of first occurrence.
KMeansResults(num_segments, n_clusters) ==
    {c \in [1..num_segments -> 0..(n_clusters - 1)] :
        \A i \in 1..num_segments :
            \A v \in 0..(c[i] - 1) : \E j \in 1..(i - 1) : c[j] = v}

\* The cluster_labels _label_segments may work with.
ClusterLabelings(num_segments) ==
    IF num_segments >= 3
    THEN KMeansResults(num_segments, IF num_segments < 4 THEN num_segments ELSE 4)
         \cup {SingletonClusters(num_segments)}
    ELSE {SingletonClusters(num_segments)}

\* cluster_counts[cl]
ClusterCount(cluster_labels, cl) ==
    Cardinality({i \in 1..Len(cluster_labels) : cluster_labels[i] = cl})

\* Position of the key cl in the dict cluster_counts (insertion order).
FirstSeen(cluster_labels, cl) ==
    CHOOSE i \in 1..Len(cluster_labels) :
        /\ cluster_labels[i] = cl
        /\ \A j \in 1..(i - 1) : cluster_labels[j] # cl

\* c comes before d in sorted(cluster_counts.items(), key=count, reverse=True):
\* higher count first, equal counts in insertion order (the sort is stable).
SortsBefore(cluster_labels, c, d) ==
    \/ ClusterCount(cluster_labels, c) > ClusterCount(cluster_labels, d)
    \/ /\ ClusterCount(cluster_labels, c) = ClusterCount(cluster_labels, d)
       /\ FirstSeen(cluster_labels, c) < FirstSeen(cluster_labels, d)

ClusterKeys(cluster_labels) == {cluster_labels[i] : i \in 1..Len(cluster_labels)}

\* The key at 0-based position k of counts_sorted; max(cluster_counts,
\* key=cluster_counts.get) is the key at position 0.
CountsSorted(cluster_labels, k) ==
    CHOOSE c \in ClusterKeys(cluster_labels) :
        Cardinality({d \in ClusterKeys(cluster_labels) : SortsBefore(cluster_labels, d, c)}) = k

\* Mutant: the band 0.4 < pos < 0.6 is not told apart from 'verse'.
PositionLabel_NoBridge(start, end, duration) ==
    IF (start + end) * 100 < 15 * 2 * duration THEN "intro"
    ELSE IF (start + end) * 10 > 9 * 2 * duration THEN "outro"
    ELSE "verse"

\* Step 4 of _label_segments: the label by the normalized midpoint
\* pos = (start + end) / 2 / duration.
PositionLabel(start, end, duration) ==
    IF (start + end) * 100 < 15 * 2 * duration THEN "intro"
    ELSE IF (start + end) * 10 > 9 * 2 * duration THEN "outro"
    ELSE IF 4 * 2 * duration < (start + end) * 10 /\ (start + end) * 10 < 6 * 2 * duration
         THEN "bridge"
    ELSE "verse"

_label_segments(cluster_labels, bound_times, duration) ==
    LET num_segments == Len(cluster_labels)
        last == Len(bound_times)
        unknown == [i \in 1..num_segments |-> "unknown"]
        \* 1. first segment
        l1 == IF bound_times[1] * 10 < duration
              THEN [unknown EXCEPT ![1] = "intro"] ELSE unknown
        \* 2. last segment
        l2 == IF bound_times[last - 1] * 100 > duration * 85
              THEN [l1 EXCEPT ![num_segments] = "outro"] ELSE l1
        \* 3. most repeated clusters
        most_common_cluster == CountsSorted(cluster_labels, 0)
        has_second == Cardinality(ClusterKeys(cluster_labels)) > 1
        l3 == [i \in 1..num_segments |->
                 IF l2[i] # "unknown" THEN l2[i]
                 ELSE IF /\ cluster_labels[i] = most_common_cluster
                         /\ ClusterCount(cluster_labels, cluster_labels[i]) > 1
                      THEN "chorus"
                 ELSE IF /\ has_second
                         /\ cluster_labels[i] = CountsSorted(cluster_labels, 1)
                         /\ ClusterCount(cluster_labels, cluster_labels[i]) > 1
                      THEN "verse"
                 ELSE "unknown"]
        \* 4. the rest by position
    IN  IF num_segments = 0 THEN unknown
        ELSE [i \in 1..num_segments |->
                 IF l3[i] # "unknown" THEN l3[i]
                 ELSE PositionLabel(bound_times[i], bound_times[i + 1], duration)]

\* SECTION_COLORS.get(label, SECTION_COLORS['unknown'])
SectionColor(label) ==
    CASE label = "intro" -> "#4CAF50"
      [] label = "verse" -> "#2196F3"
      [] label = "chorus" -> "#FF9800"
      [] label = "bridge" -> "#9C27B0"
      [] label = "outro" -> "#607D8B"
      [] label = "breakdown" -> "#00BCD4"
      [] label = "buildup" -> "#FFEB3B"
      [] label = "drop" -> "#F44336"
      [] OTHER -> "#9E9E9E"

\* The section list built from bound_times and labels.
BuildSections(bound_times, labels) ==
    [i \in 1..(Len(bound_times) - 1) |->
        [start |-> bound_times[i], end |-> bound_times[i + 1],
         label |-> labels[i], color |-> SectionColor(labels[i])]]

StructureInputs ==
    [y_len : {k * (HopLength \div 2) : k \in 1..MaxHalfHops},
     num_sections : 1..MaxSections]

InitStructure ==
    /\ structure_args \in StructureInputs
    /\ bound_frames = <<>>
    /\ structure_ret = [pc |-> "segment", path |-> "", cluster_labels |-> <<>>,
                        sections |-> <<>>]
    /\ adjust_args = Idle /\ adjust_ret = Idle
    /\ click_args = Idle /\ click_ret = Idle
    /\ analysis_results = Idle /\ issued = Idle /\ in_flight = Idle /\ response = Idle
    /\ EnergyIdle

\* The try branch: agglomerative clustering returns boundaries.
segment_agglomerative ==
    /\ structure_ret.pc = "segment"
    /\ \E bounds \in AgglomerativeResults(NumFrames(structure_args.y_len),
                                          structure_args.num_sections) :
          bound_frames' = ConcatenateBounds(bounds, NumFrames(structure_args.y_len))
    /\ structure_ret' = [structure_ret EXCEPT !.pc = "label", !.path = "agglomerative"]
    /\ UNCHANGED <<structure_args, adjustVars, clickVars, appVars, energyVars>>

\* The except branch: clustering raised, uniform segmentation.
segment_uniform ==
    /\ structure_ret.pc = "segment"
    /\ bound_frames' = UniformBounds(NumFrames(structure_args.y_len),
                                     structure_args.num_sections)
    /\ structure_ret' = [structure_ret EXCEPT !.pc = "label", !.path = "uniform"]
    /\ UNCHANGED <<structure_args, adjustVars, clickVars, appVars, energyVars>>

\* Frames to times, labelling, and the section list.
label_and_build ==
    /\ structure_ret.pc = "label"
    /\ \E cluster_labels \in ClusterLabelings(Len(bound_frames) - 1) :
          LET bound_times == [i \in 1..Len(bound_frames) |-> frames_to_time(bound_frames[i])]
              labels == _label_segments(cluster_labels, bound_times,
                                        Duration(structure_args.y_len))
          IN  structure_ret' = [structure_ret EXCEPT
                                    !.pc = "done",
                                    !.cluster_labels = cluster_labels,
                                    !.sections = BuildSections(bound_times, labels)]
    /\ UNCHANGED <<structure_args, bound_frames, adjustVars, clickVars, appVars, energyVars>>

NextStructure ==
    \/ segment_agglomerative
    \/ segment_uniform
    \/ label_and_build

SpecStructure == InitStructure /\ [][NextStructure]_vars

-----------------------------------------------------------------------------
(* Properties of analyze_structure (checked under SpecStructure).          *)

C9_WitnessUniform ==
    /\ structure_ret.pc = "done"
    /\ structure_ret.path = "uniform"
    /\ Len(structure_ret.sections) = MaxSections
    /\ \A i \in 1..MaxSections : structure_ret.sections[i].start < structure_ret.sections[i].end


-----------------------------------------------------------------------------
(* StructureAnalyzer.detect_energy_sections: the scan of the normalized    *)
(* envelope.  Envelope values are tenths: 7 is 0.7, 3 is 0.3.              *)

threshold_high == 7
threshold_low == 3

\* longest envelope scanned
MaxEnvFrames == 5

\* Envelope values: the minimum 0, values around both thresholds, and the
\* maximum (just under 1.0).
EnvLevels ==
    {0, threshold_low - 1, threshold_low, threshold_high, threshold_high + 1, 10}

\* rms_norm = (rms_smooth - min) / (max - min + 1e-8): the smallest value is 0,
\* and the largest is just under 1 unless the envelope is constant (all 0).
NormalizedEnvelopes ==
    {e \in UNION {[1..n -> EnvLevels] : n \in 1..MaxEnvFrames} :
        /\ \E k \in 1..Len(e) : e[k] = 0
        /\ (\A k \in 1..Len(e) : e[k] = 0) \/ (\E k \in 1..Len(e) : e[k] = 10)}

\* Mutant: the band [0.3, 0.7] returns to 'normal' from 'high' only.
NewState_HighOnly(value, state) ==
    IF value > threshold_high /\ state # "high" THEN "high"
    ELSE IF value < threshold_low /\ state # "low" THEN "low"
    ELSE IF threshold_low <= value /\ value <= threshold_high
         THEN IF state = "high" THEN "normal" ELSE state
    ELSE state

\* new_state as the loop body computes it from rms_norm[i] and current_state
NewState(value, state) ==
    IF value > threshold_high /\ state # "high" THEN "high"
    ELSE IF value < threshold_low /\ state # "low" THEN "low"
    ELSE IF threshold_low <= value /\ value <= threshold_high
         THEN IF state \in {"high", "low"} THEN "normal" ELSE state
    ELSE state

\* Mutant: the state 'normal' labelled 'buildup', as the docstring names it.
EnergyLabel_Buildup(state) ==
    IF state = "high" THEN "drop" ELSE IF state = "low" THEN "breakdown" ELSE "buildup"

\* 'drop' if current_state == 'high' else 'breakdown' if ... == 'low' else 'verse'
EnergyLabel(state) ==
    IF state = "high" THEN "drop" ELSE IF state = "low" THEN "breakdown" ELSE "verse"

\* Mutant: every section starts at times[0].
EnergySection_FromZero(start, end, state) ==
    [start |-> frames_to_time(0), end |-> frames_to_time(end),
     label |-> EnergyLabel(state), color |-> SectionColor(EnergyLabel(state))]

\* The section dict appended for frames start..end; times[i] is
\* frames_to_time(i).
EnergySection(start, end, state) ==
    [start |-> frames_to_time(start), end |-> frames_to_time(end),
     label |-> EnergyLabel(state), color |-> SectionColor(EnergyLabel(state))]

InitEnergy ==
    /\ rms_norm \in NormalizedEnvelopes
    /\ energy_pc = "scan"
    /\ frame = 1
    /\ current_state = "normal"
    /\ section_start = 0
    /\ energy_sections = <<>>
    /\ adjust_args = Idle /\ adjust_ret = Idle
    /\ click_args = Idle /\ click_ret = Idle
    /\ analysis_results = Idle /\ issued = Idle /\ in_flight = Idle /\ response = Idle
    /\ structure_args = Idle /\ bound_frames = Idle /\ structure_ret = Idle

\* One iteration of "for i in range(1, len(rms_norm))"; rms_norm[i] of the code
\* is rms_norm[frame + 1] of the sequence.
scan_frame ==
    /\ energy_pc = "scan"
    /\ frame < Len(rms_norm)
    /\ LET new_state == NewState(rms_norm[frame + 1], current_state)
       IN  IF new_state # current_state
           THEN /\ energy_sections' =
                      IF section_start # frame
                      THEN Append(energy_sections,
                                  EnergySection(section_start, frame, current_state))
                      ELSE energy_sections
                /\ section_start' = frame
                /\ current_state' = new_state
           ELSE UNCHANGED <<energy_sections, section_start, current_state>>
    /\ frame' = frame + 1
    /\ UNCHANGED <<rms_norm, energy_pc, adjustVars, clickVars, appVars, structureVars>>

\* The loop is over.
scan_end ==
    /\ energy_pc = "scan"
    /\ frame >= Len(rms_norm)
    /\ energy_pc' = "final"
    /\ UNCHANGED <<rms_norm, frame, current_state, section_start, energy_sections,
                   adjustVars, clickVars, appVars, structureVars>>

\* "Add final section" and return.
final_section ==
    /\ energy_pc = "final"
    /\ energy_sections' =
          IF section_start < Len(rms_norm) - 1
          THEN Append(energy_sections,
                      EnergySection(section_start, Len(rms_norm) - 1, current_state))
          ELSE energy_sections
    /\ energy_pc' = "done"
    /\ UNCHANGED <<rms_norm, frame, current_state, section_start,
                   adjustVars, clickVars, appVars, structureVars>>

NextEnergy ==
    \/ scan_frame
    \/ scan_end
    \/ final_section

SpecEnergy == InitEnergy /\ [][NextEnergy]_vars

-----------------------------------------------------------------------------
(* Properties of detect_energy_sections (checked under SpecEnergy).        *)

\* C10: the scan starts in 'normal'; processing a frame of value v in state s
\* enters 'high' exactly when v > 0.7 and s is not 'high', enters 'low' exactly
\* when v < 0.3 and s is not 'low', returns to 'normal' exactly when s is 'high'
\* or 'low' and 0.3 <= v <= 0.7, and otherwise keeps s; so after a processed
\* frame the state is 'high' iff v > 0.7, 'low' iff v < 0.3, else 'normal'.
C10_EnergyTransitions ==
    /\ (energy_pc = "scan" /\ frame = 1) => current_state = "normal"
    /\ [][frame' = frame + 1 =>
            LET v == rms_norm[frame + 1]
                s == current_state
                t == current_state'
                toHigh == v > threshold_high /\ s # "high"
                toLow == v < threshold_low /\ s # "low"
                toNormal == s \in {"high", "low"} /\ threshold_low <= v /\ v <= threshold_high
            IN  /\ (t = "high" /\ s # "high") <=> toHigh
                /\ (t = "low" /\ s # "low") <=> toLow
                /\ (t = "normal" /\ s # "normal") <=> toNormal
                /\ ~(toHigh \/ toLow \/ toNormal) => t = s
                /\ (t = "high") <=> (v > threshold_high)
                /\ (t = "low") <=> (v < threshold_low)
                /\ (t = "normal") <=> (threshold_low <= v /\ v <= threshold_high)
       ]_vars

\* A scan that has gone normal -> low -> high -> normal, the last two frames
\* lying exactly on the thresholds' band edge 0.7 and above it.
C10_Witness ==
    /\ energy_pc = "scan" /\ frame = 4
    /\ rms_norm[2] < threshold_low
    /\ rms_norm[3] > threshold_high
    /\ rms_norm[4] = threshold_high
    /\ current_state = "normal"
    /\ section_start = 3

\* The label the claims give to a section left in state s.
LabelOfStateLeft(s) ==
    CASE s = "high" -> "drop"
      [] s = "low" -> "breakdown"
      [] s = "normal" -> "verse"

RECURSIVE StateAfter(_, _)
StateAfter(e, i) ==
    IF i = 0 THEN "normal" ELSE NewState(e[i + 1], StateAfter(e, i - 1))

\* The frames of envelope e at which the state changes.
TransitionFrames(e) ==
    {i \in 1..(Len(e) - 1) : StateAfter(e, i) # StateAfter(e, i - 1)}

\* The last transition point of envelope e, frame 0 when there is none.
LastTransition(e) ==
    IF TransitionFrames(e) = {} THEN 0
    ELSE CHOOSE i \in TransitionFrames(e) : \A j \in TransitionFrames(e) : j <= i

\* C12 as stated: for every envelope the returned list ends with a final
\* section from the last transition point to the track end, labeled by the
\* last active state, and holds one section more than there were transitions.
C12_TrailingAlways ==
    energy_pc = "done" =>
        /\ Len(energy_sections) = Cardinality(TransitionFrames(rms_norm)) + 1
        /\ energy_sections[Len(energy_sections)].start =
              frames_to_time(LastTransition(rms_norm))
        /\ energy_sections[Len(energy_sections)].end =
              frames_to_time(Len(rms_norm) - 1)

\* C12 (amended): the final section is emitted exactly when the last
\* transition point lies before the last frame; it then spans from that point
\* to the last frame's time, is labeled by the last active state, and the list
\* holds transitions + 1 sections.  When the last transition happens on the
\* last frame, or the envelope has a single frame, no final section is emitted
\* and the list holds exactly one section per transition.
C12_TrailingSection ==
    energy_pc = "done" =>
        LET n == Len(rms_norm)
            transitions == Cardinality(TransitionFrames(rms_norm))
            last == LastTransition(rms_norm)
        IN  /\ section_start = last
            /\ current_state = StateAfter(rms_norm, n - 1)
            /\ IF last < n - 1
               THEN /\ Len(energy_sections) = transitions + 1
                    /\ LET final == energy_sections[Len(energy_sections)]
                       IN  /\ final.start = frames_to_time(last)
                           /\ final.end = frames_to_time(n - 1)
                           /\ final.label = LabelOfStateLeft(current_state)
               ELSE /\ Len(energy_sections) = transitions
                    /\ \A k \in 1..Len(energy_sections) :
                          energy_sections[k].end <= frames_to_time(last)

\* A finished detection with two transitions and the final section, labeled
\* 'drop', from the second transition to the last frame.
C12_Witness ==
    /\ energy_pc = "done"
    /\ Len(rms_norm) = 4
    /\ TransitionFrames(rms_norm) = {1, 2}
    /\ Len(energy_sections) = 3
    /\ energy_sections[3].label = "drop"
    /\ energy_sections[3].start = frames_to_time(2)
    /\ energy_sections[3].end = frames_to_time(3)

\* A finished detection whose last transition fell on the last frame: one
\* section per transition and none after it.
C12_WitnessLastFrame ==
    /\ energy_pc = "done"
    /\ Len(rms_norm) = 3
    /\ TransitionFrames(rms_norm) = {1, 2}
    /\ Len(energy_sections) = 2

-----------------------------------------------------------------------------
(* Properties of _label_segments (checked under SpecStructure).            *)

\* The boundary times and the duration a finished analysis labelled with.
LabelledTimes == [i \in 1..Len(bound_frames) |-> frames_to_time(bound_frames[i])]
LabelledDuration == Duration(structure_args.y_len)

\* Rule (1) applies to segment i: it is the first and starts before 10 %.
IsIntroByRule(i, bt, dur) == i = 1 /\ bt[1] * 10 < dur
\* Rule (2) applies to segment i: it is the last and the second-to-last
\* boundary lies after 85 %.
IsOutroByRule(i, bt, dur) == i = Len(bt) - 1 /\ bt[Len(bt) - 1] * 100 > 85 * dur

\* The segments rules (1) and (2) leave unlabeled.
StillUnlabeled(bt, dur) ==
    {i \in 1..(Len(bt) - 1) : ~IsIntroByRule(i, bt, dur) /\ ~IsOutroByRule(i, bt, dur)}

\* Membership count of cluster c among the segments of pool.
CountIn(cl, pool, c) == Cardinality({j \in pool : cl[j] = c})

\* First segment of cluster c.
FirstOf(cl, c) == CHOOSE j \in 1..Len(cl) : cl[j] = c /\ \A k \in 1..(j - 1) : cl[k] # c

\* c ranks first among the clusters cs by count in pool; with firstWins, equal
\* counts are settled for the cluster that occurs first.
RanksFirst(cl, pool, cs, c, firstWins) ==
    /\ c \in cs
    /\ \A d \in cs \ {c} :
          \/ CountIn(cl, pool, c) > CountIn(cl, pool, d)
          \/ /\ CountIn(cl, pool, c) = CountIn(cl, pool, d)
             /\ (firstWins => FirstOf(cl, c) < FirstOf(cl, d))

\* The label rules (1)..(4) give segment i when rule (3) counts over pool and
\* takes top and second as the two leading clusters.
RuleLabel(i, cl, bt, dur, pool, top, second) ==
    IF IsIntroByRule(i, bt, dur) THEN "intro"
    ELSE IF IsOutroByRule(i, bt, dur) THEN "outro"
    ELSE IF cl[i] \in top /\ CountIn(cl, pool, cl[i]) > 1 THEN "chorus"
    ELSE IF cl[i] \in second /\ CountIn(cl, pool, cl[i]) > 1 THEN "verse"
    ELSE LET mid2 == bt[i] + bt[i + 1]
         IN  IF mid2 * 100 < 15 * 2 * dur THEN "intro"
             ELSE IF mid2 * 10 > 9 * 2 * dur THEN "outro"
             ELSE IF 4 * 2 * dur < mid2 * 10 /\ mid2 * 10 < 6 * 2 * dur THEN "bridge"
             ELSE "verse"

\* The labels follow rules (1)..(4) with rule (3) counting over pool, for some
\* leading cluster top and some runner-up second (none when pool holds fewer
\* than two clusters) of the clusters the counting ranges over.
FollowsRules(labels, cl, bt, dur, pool, cs, firstWins) ==
    \E top \in SUBSET cs : \E second \in SUBSET (cs \ top) :
        /\ IF cs = {} THEN top = {}
           ELSE \E c \in cs : top = {c} /\ RanksFirst(cl, pool, cs, c, firstWins)
        /\ IF cs \ top = {} THEN second = {}
           ELSE \E d \in cs \ top :
                    second = {d} /\ RanksFirst(cl, pool, cs \ top, d, firstWins)
        /\ \A i \in 1..(Len(bt) - 1) :
              labels[i] = RuleLabel(i, cl, bt, dur, pool, top, second)

\* C13 as stated: each segment's label is the first applicable of the rules
\* (1) intro, (2) outro, (3) chorus / verse for the clusters with the highest
\* and second-highest membership count among the segments still unlabeled
\* (count > 1), (4) by midpoint; ties between equal counts may fall either way.
C13_CountAmongUnlabeled ==
    structure_ret.pc = "done" =>
        LET cl == structure_ret.cluster_labels
            pool == StillUnlabeled(LabelledTimes, LabelledDuration)
        IN  FollowsRules([i \in 1..Len(cl) |-> structure_ret.sections[i].label],
                         cl, LabelledTimes, LabelledDuration,
                         pool, {cl[j] : j \in pool}, FALSE)

\* C13 (amended): each segment's label is the first applicable of the rules
\* (1) intro, (2) outro, (3) chorus / verse for the clusters with the highest
\* and second-highest membership count over ALL segments, those labeled by (1)
\* and (2) included (count > 1, equal counts settled for the cluster that
\* occurs first), (4) by midpoint: pos < 0.15 intro, pos > 0.9 outro,
\* 0.4 < pos < 0.6 bridge, else verse; no segment is left labeled unknown.
C13_LabelPriority ==
    structure_ret.pc = "done" =>
        LET cl == structure_ret.cluster_labels
            n == Len(cl)
        IN  /\ n >= 1
            /\ Len(structure_ret.sections) = n
            /\ FollowsRules([i \in 1..n |-> structure_ret.sections[i].label],
                            cl, LabelledTimes, LabelledDuration,
                            1..n, {cl[j] : j \in 1..n}, TRUE)
            /\ \A i \in 1..n :
                  structure_ret.sections[i].label
                      \in {"intro", "outro", "chorus", "verse", "bridge"}

\* A labelling in which all four rules decided a segment: intro, chorus for
\* a cluster that counts two only with the intro segment, bridge by midpoint,
\* and outro.
C13_Witness ==
    /\ structure_ret.pc = "done"
    /\ Len(structure_ret.sections) = 4
    /\ structure_ret.cluster_labels = <<0, 0, 1, 2>>
    /\ structure_ret.sections[1].label = "intro"
    /\ structure_ret.sections[2].label = "chorus"
    /\ structure_ret.sections[3].label = "bridge"
    /\ structure_ret.sections[4].label = "outro"

-----------------------------------------------------------------------------
(* Properties of the stored BeatGrid under update, analyze and delete      *)
(* requests (checked under SpecApp).                                       *)

\* The step answers an update-beats request (a request that starts an
\* analysis answers nothing yet, but it adds to in_flight).
UpdateStep == response'.handler = "update_beats" /\ in_flight' = in_flight

\* The step answers an update-beats request for a track in the store.
UpdateStepOn(f) ==
    /\ UpdateStep
    /\ response'.file_id = f
    /\ f \in DOMAIN analysis_results
    /\ f \in DOMAIN analysis_results'

\* C14: whenever an update-beats request ends with an error, the track's
\* stored BeatGrid (beats, downbeats, beat_numbers, bpm) is exactly what it
\* was before the request, also when the request carried a valid beat array.
C14_NoPartialUpdate ==
    [][\A f \in FileIds :
          (UpdateStepOn(f) /\ response'.code >= 400) =>
              analysis_results'[f].beats = analysis_results[f].beats]_vars

\* What does hold: a failed update-beats request leaves the BeatGrid as it was
\* when the step that failed was the first the request asked for (a track
\* without a BeatGrid, or a request whose first present key among beats,
\* offset, bpm is the one rejected).
C14_FirstStepFailure ==
    [][\A f \in FileIds :
          (/\ UpdateStepOn(f) /\ response'.code >= 400
           /\ \/ ~analysis_results[f].has_beats
              \/ /\ ~response'.data.beats.given
                 /\ (response'.data.offset.given => ~response'.data.offset.numeric)) =>
              analysis_results'[f] = analysis_results[f]]_vars

\* The positions of the beats whose beat-number is 1.
NumberedOne(grid) ==
    {i \in 1..Len(grid.beats) : i <= Len(grid.beat_numbers) /\ grid.beat_numbers[i] = 1}

\* C15: every stored BeatGrid has exactly one beat-number per beat, and its
\* downbeats are exactly its beats whose beat-number is 1.
C15_GridConsistency ==
    \A f \in DOMAIN analysis_results :
        analysis_results[f].has_beats =>
            LET grid == analysis_results[f].beats
            IN  /\ Len(grid.beat_numbers) = Len(grid.beats)
                /\ KeepsInOrder(grid.downbeats, grid.beats, NumberedOne(grid))

\* What does hold: the grid is consistent as detection stores it and after an
\* update-beats request that carried a beat array and no offset.
C15_ConsistentWithoutOffset ==
    [][\A f \in DOMAIN analysis_results' :
          (\/ response'.handler = "analyze_file" /\ response'.code = 200
                  /\ response'.file_id = f /\ analysis_results' # analysis_results
           \/ /\ UpdateStepOn(f) /\ response'.code = 200
              /\ response'.data.beats.given /\ ~response'.data.offset.given) =>
              LET grid == analysis_results'[f].beats
              IN  /\ Len(grid.beat_numbers) = Len(grid.beats)
                  /\ KeepsInOrder(grid.downbeats, grid.beats, NumberedOne(grid))]_vars

\* C16: once a track's status is 'analyzed' it stays 'analyzed' until the
\* track is deleted, and its stored beats change only through update-beats;
\* an analyze request never replaces stored beats.
C16_AnalyzedStable ==
    [][\A f \in DOMAIN analysis_results :
          analysis_results[f].status = "analyzed" =>
              \/ f \notin DOMAIN analysis_results' /\ response'.handler = "delete_file"
              \/ /\ f \in DOMAIN analysis_results'
                 /\ analysis_results'[f].status = "analyzed"
                 /\ analysis_results'[f].beats # analysis_results[f].beats => UpdateStep]_vars

\* What does hold: with no second analyze request in flight, an analyzed track
\* stays analyzed until deleted and only update-beats changes its beats.
C16_StableWithoutRace ==
    [][\A f \in DOMAIN analysis_results :
          (analysis_results[f].status = "analyzed" /\ in_flight = {}) =>
              \/ f \notin DOMAIN analysis_results' /\ response'.handler = "delete_file"
              \/ /\ f \in DOMAIN analysis_results'
                 /\ analysis_results'[f].status = "analyzed"
                 /\ analysis_results'[f].beats # analysis_results[f].beats => UpdateStep]_vars


=============================================================================
